---- MODULE Spec2Model ----
(***************************************************************************)
(* Model of src/app.py: the provider adapters geocode_address and          *)
(* get_routing_distance, haversine_distance, the calculate_distances loop  *)
(* and the Calculate handler of main with its session fields.              *)
(*                                                                         *)
(* Numbers.  Latitudes and longitudes are whole degrees.  A distance in    *)
(* kilometres is held as a whole number of units of 0.0001 km, so that     *)
(* distance_m / 1000 and round(x, 2) are exact integer computations.       *)
(***************************************************************************)
EXTENDS Integers, Sequences, FiniteSets, TLC

\* ------------------------------------------------------------------ bounds
\* longest destination list handed to calculate_distances called on its own
MaxDests == 2
\* longest destination list entered before a click on Calculate
MaxClickDests == 1

\* --------------------------------------------------------- Python values
\* Optional[...] values of the source: None, a float, a (lat, lon) tuple.
PyNone == [t |-> "None", a |-> 0, b |-> 0]
PyFloat(x) == [t |-> "float", a |-> x, b |-> 0]
PyTuple(lat, lon) == [t |-> "tuple", a |-> lat, b |-> lon]

\* truth value that takes the coordinates (0.0, 0.0) for "no coordinates"
Truthy_zero(v) ==
    CASE v.t = "None" -> FALSE
      [] v.t = "float" -> v.a # 0
      [] v.t = "tuple" -> v.a # 0 \/ v.b # 0

\* Python truth value, as used by `if not fixed_coords`, `if not dest_coords`
\* and `distance if distance else None`: None is false, a float is false
\* exactly when it is 0.0, a 2-tuple is never empty and so always true.
Truthy(v) ==
    CASE v.t = "None" -> FALSE
      [] v.t = "float" -> v.a # 0
      [] v.t = "tuple" -> TRUE

\* ------------------------------------------------------------ JSON fields
\* A field of a JSON object: absent, null, a numeric string ("19.07"), a
\* string that is not a number ("abc"), a JSON number, or true/false (v is
\* 1/0).
JMissing == [t |-> "missing", v |-> 0]
JNull == [t |-> "null", v |-> 0]
JBadStr == [t |-> "str", v |-> 0]
JNumStr(x) == [t |-> "numstr", v |-> x]
JNum(x) == [t |-> "num", v |-> x]
JBool(x) == [t |-> "bool", v |-> x]

\* Outcome of evaluating a piece of Python: exc = "none" and a value, or the
\* class of the exception raised.
Value(v) == [exc |-> "none", val |-> v]
Raise(e) == [exc |-> e, val |-> PyNone]

\* d[key] on a dict followed by float(...), lines 134: a missing key raises
\* KeyError, float(None) TypeError, float("abc") ValueError; float of a
\* numeric string, of a number and of a bool (float(True) == 1.0) succeeds.
FloatOfField(f) ==
    CASE f.t = "missing" -> Raise("KeyError")
      [] f.t = "null" -> Raise("TypeError")
      [] f.t = "str" -> Raise("ValueError")
      [] f.t \in {"numstr", "num", "bool"} -> Value(PyFloat(f.v))

\* routes[0]['distance'] / 1000, lines 165-166, in units of 0.0001 km (one
\* metre is 10 units): a missing key raises KeyError, None / 1000 and
\* "5" / 1000 raise TypeError, a number and a bool (True / 1000 == 0.001)
\* divide.
KmOfField(f) ==
    CASE f.t = "missing" -> Raise("KeyError")
      [] f.t \in {"null", "str", "numstr"} -> Raise("TypeError")
      [] f.t \in {"num", "bool"} -> Value(PyFloat(f.v * 10))

\* `except Exception`, lines 137 and 169: every exception class the body can
\* raise here derives from Exception.
ExceptionClasses ==
    {"RequestException", "HTTPError", "JSONDecodeError", "KeyError",
     "TypeError", "ValueError", "AttributeError", "IndexError"}
CaughtByExceptException(e) == e \in ExceptionClasses

\* --------------------------------------------------------- geocode_address
\* What the Nominatim request can come back with.  kind: the request raised
\* (neterr: connection error or timeout), raise_for_status raised (http),
\* response.json() raised (notjson), or a JSON document of some shape.
LatFields ==
    {JMissing, JNull, JBadStr, JNumStr(0), JNumStr(1), JNum(0), JNum(1),
     JBool(0), JBool(1)}
LonFields == {JMissing, JNull, JBadStr, JNumStr(0), JNum(0), JBool(0)}
GeoShapes ==
    {"null", "emptylist", "emptydict", "dict", "number", "list_of_str",
     "list_of_obj"}
GeoResponses ==
    {[kind |-> k, shape |-> "null", lat |-> JMissing, lon |-> JMissing] :
        k \in {"neterr", "http", "notjson"}}
    \cup {[kind |-> "json", shape |-> s, lat |-> JMissing, lon |-> JMissing] :
            s \in GeoShapes \ {"list_of_obj"}}
    \cup {[kind |-> "json", shape |-> "list_of_obj", lat |-> la, lon |-> lo] :
            la \in LatFields, lo \in LonFields}

\* The try body, lines 122-135.
geocode_body(resp) ==
    CASE resp.kind = "neterr" -> Raise("RequestException")
      [] resp.kind = "http" -> Raise("HTTPError")
      [] resp.kind = "notjson" -> Raise("JSONDecodeError")
      [] resp.kind = "json" ->
            CASE resp.shape \in {"null", "emptylist", "emptydict"} ->
                    Value(PyNone)                  \* `data` is false
              [] resp.shape = "number" -> Raise("TypeError")   \* len(5)
              [] resp.shape = "dict" -> Raise("KeyError")      \* data[0]
              [] resp.shape = "list_of_str" -> Raise("TypeError")
              [] resp.shape = "list_of_obj" ->
                    LET la == FloatOfField(resp.lat)
                        lo == FloatOfField(resp.lon)
                    IN  IF la.exc # "none" THEN la
                        ELSE IF lo.exc # "none" THEN lo
                        ELSE Value(PyTuple(la.val.a, lo.val.a))

\* geocode_address, lines 119-138: the body under try / except Exception.
geocode_address(resp) ==
    LET r == geocode_body(resp)
    IN  IF r.exc # "none" /\ CaughtByExceptException(r.exc)
        THEN Value(PyNone)
        ELSE r

\* ---------------------------------------------------- get_routing_distance
\* What the OSRM request can come back with: as above, and for a JSON
\* object its `code`, and `routes` as absent, null, [], or a list whose
\* first route has the distance field `dist` (in metres).
RouteCodes == {"missing", "Ok", "NoRoute"}
RoutesShapes == {"missing", "null", "emptylist", "list"}
DistFields ==
    {JMissing, JNull, JBadStr, JNumStr(5), JNum(0), JNum(4), JNum(1234),
     JBool(0)}
RouteResponses ==
    {[kind |-> k, shape |-> "null", code |-> "missing", routes |-> "missing",
      dist |-> JMissing] : k \in {"neterr", "http", "notjson"}}
    \cup {[kind |-> "json", shape |-> s, code |-> "missing",
           routes |-> "missing", dist |-> JMissing] : s \in {"null", "list"}}
    \cup {[kind |-> "json", shape |-> "dict", code |-> c, routes |-> r,
           dist |-> JMissing] :
            c \in RouteCodes, r \in RoutesShapes \ {"list"}}
    \cup {[kind |-> "json", shape |-> "dict", code |-> c, routes |-> "list",
           dist |-> d] : c \in RouteCodes, d \in DistFields}

\* The try body, lines 154-167.
routing_body(resp) ==
    CASE resp.kind = "neterr" -> Raise("RequestException")
      [] resp.kind = "http" -> Raise("HTTPError")
      [] resp.kind = "notjson" -> Raise("JSONDecodeError")
      [] resp.kind = "json" ->
            CASE resp.shape \in {"null", "list"} ->
                    Raise("AttributeError")        \* data.get
              [] resp.shape = "dict" ->
                    IF resp.code = "Ok" /\ resp.routes = "list"
                    THEN KmOfField(resp.dist)
                    ELSE Value(PyNone)

\* get_routing_distance, lines 151-170.
get_routing_distance(resp) ==
    LET r == routing_body(resp)
    IN  IF r.exc # "none" /\ CaughtByExceptException(r.exc)
        THEN Value(PyNone)
        ELSE r

\* ------------------------------------------------------ haversine_distance
EarthRadiusKm == 6371
\* math.radians: pi / 180, times 10^7
RadiansPerDegreeE7 == 174533

Abs(x) == IF x < 0 THEN -x ELSE x

\* haversine_distance, lines 140-149, in units of 0.0001 km, for two points
\* on one meridian (dlon = 0: a = sin^2(dlat/2), c = |dlat|) or both on the
\* equator (a = sin^2(dlon/2), c = |dlon|), where the formula reduces to
\* 6371 * (angle in radians).  The coordinates of this model are all of
\* that kind; no other case is defined.
haversine_distance(lat1, lon1, lat2, lon2) ==
    CASE lon1 = lon2 ->
            ((EarthRadiusKm * RadiansPerDegreeE7) \div 1000) * Abs(lat2 - lat1)
      [] lon1 # lon2 /\ lat1 = 0 /\ lat2 = 0 ->
            ((EarthRadiusKm * RadiansPerDegreeE7) \div 1000) * Abs(lon2 - lon1)

\* round(x, 2), line 232: to the nearest 0.01 km, i.e. the nearest multiple
\* of 100 units.  No distance of this model lies halfway between two
\* multiples, where Python's result depends on the binary float.
Round2(x) == ((x + 50) \div 100) * 100

\* ----------------------------------------------------- calculate_distances
StraightLine == "Straight Line (Haversine)"
ActualRoute == "Actual Route Distance"
\* the selectbox options, line 275
DistanceTypes == {StraightLine, ActualRoute}

\* inputs of a run: origin strings, destination strings, destination lists
FixedAddresses == {"O1", "O2"}
DestAddresses == {"A", "B"}
DestLists == UNION {[1..n -> DestAddresses] : n \in 0..MaxDests}
ClickDestLists == UNION {[1..n -> DestAddresses] : n \in 0..MaxClickDests}

\* what the two adapters can hand back to calculate_distances
GeoReturns == {geocode_address(resp) : resp \in GeoResponses}
RouteReturns == {get_routing_distance(resp) : resp \in RouteResponses}

VARIABLES
    pc,                     \* position in calculate_distances / its caller
    caller,                 \* "main" (the Calculate button) or "api"
    fixed_address,          \* arguments of the running call
    destination_addresses,
    distance_type,
    fixed_coords,           \* locals of calculate_distances
    i,
    dest_coords,
    distance,
    status,
    results,
    retval,                 \* value being returned to the caller
    returned,               \* the last completed call: its return value
    trace,                  \* outbound requests, sleeps and progress updates
    session_state,          \* st.session_state: results, fixed_address, ...
    probe                   \* an adapter call on its own (SpecAdapters)

vars ==
    <<pc, caller, fixed_address, destination_addresses, distance_type,
      fixed_coords, i, dest_coords, distance, status, results, retval,
      returned, trace, session_state, probe>>

args == <<caller, fixed_address, destination_addresses, distance_type>>
locals == <<fixed_coords, i, dest_coords, distance, status, results>>

\* An entry of the trace: e is "geo" (a Nominatim request; i = -1 for the
\* origin, else the destination's index), "route" (an OSRM request),
\* "sleep" (time.sleep(1)) or "progress" (progress_bar.progress, i is the
\* numerator i + 1); ret is what the adapter returned.
Event(e, idx, ret) == [e |-> e, i |-> idx, ret |-> ret]

NoProbe == [fn |-> "none", geo |-> CHOOSE r \in GeoResponses : TRUE,
            route |-> CHOOSE r \in RouteResponses : TRUE,
            done |-> FALSE, out |-> Value(PyNone)]

Init ==
    /\ pc = "idle"
    /\ caller = "main"
    /\ fixed_address = ""
    /\ destination_addresses = <<>>
    /\ distance_type = StraightLine
    /\ fixed_coords = PyNone
    /\ i = 0
    /\ dest_coords = PyNone
    /\ distance = PyNone
    /\ status = ""
    /\ results = <<>>
    /\ retval = <<>>
    /\ returned = [done |-> FALSE, value |-> <<>>]
    /\ trace = <<>>
    /\ session_state =
          [keys |-> {}, results |-> <<>>, fixed_address |-> "",
           distance_type |-> ""]
    /\ probe = NoProbe

\* Entry of calculate_distances, lines 172-180.
Enter(who, fa, dests, dt) ==
    /\ pc = "idle"
    /\ pc' = "origin"
    /\ caller' = who
    /\ fixed_address' = fa
    /\ destination_addresses' = dests
    /\ distance_type' = dt
    /\ fixed_coords' = PyNone
    /\ i' = 0
    /\ dest_coords' = PyNone
    /\ distance' = PyNone
    /\ status' = ""
    /\ results' = <<>>
    /\ retval' = <<>>
    /\ returned' = [done |-> FALSE, value |-> <<>>]
    /\ trace' = <<>>
    /\ UNCHANGED <<session_state, probe>>

\* The Calculate button of main, lines 394-411: it is enabled, and the
\* branch of line 407 is taken, only with an origin and a destination.
Click ==
    \E fa \in FixedAddresses, dests \in ClickDestLists, dt \in DistanceTypes :
        /\ fa # "" /\ dests # <<>>
        /\ Enter("main", fa, dests, dt)

\* calculate_distances called on its own, with any destination list.
CallDirect ==
    \E fa \in FixedAddresses, dests \in DestLists, dt \in DistanceTypes :
        Enter("api", fa, dests, dt)

\* Lines 181-190: geocode the origin; return [] when it is not found.
GeocodeOrigin ==
    /\ pc = "origin"
    /\ \E r \in GeoReturns :
              /\ trace' = Append(trace, Event("geo", -1, r.val))
              /\ fixed_coords' = r.val
              /\ IF r.exc # "none"
                 THEN pc' = "raised" /\ retval' = retval
                 ELSE IF ~Truthy(r.val)
                 THEN pc' = "return" /\ retval' = <<>>
                 ELSE pc' = "loop" /\ retval' = retval
    /\ UNCHANGED <<args, i, dest_coords, distance, status, results, returned,
                   session_state, probe>>

\* the loop stopping one destination early
LoopHasNext_short(idx, n) == idx < n - 1

\* `for i, dest_address in enumerate(destination_addresses)`, line 192
LoopHasNext(idx, n) == idx < n

\* progress computed from i instead of i + 1
ProgressNumerator_zero(idx) == idx

\* the value handed to progress_bar.progress, line 194, times total
ProgressNumerator(idx) == idx + 1

\* Lines 192-196: the head of one iteration reports progress.
ReportProgress ==
    /\ pc = "loop"
    /\ LoopHasNext(i, Len(destination_addresses))
    /\ trace' = Append(trace, Event("progress", ProgressNumerator(i), PyNone))
    /\ pc' = "delay"
    /\ UNCHANGED <<args, locals, retval, returned, session_state, probe>>

\* the delay skipped before the second destination too
NeedsDelay_late(idx) == idx > 1

\* `if i > 0`, line 199
NeedsDelay(idx) == idx > 0

\* Lines 198-200: time.sleep(1) before every destination but the first.
Delay ==
    /\ pc = "delay"
    /\ trace' = IF NeedsDelay(i) THEN Append(trace, Event("sleep", i, PyNone))
                ELSE trace
    /\ pc' = "geocode"
    /\ UNCHANGED <<args, locals, retval, returned, session_state, probe>>

\* Line 203.
GeocodeDest ==
    /\ pc = "geocode"
    /\ \E r \in GeoReturns :
              /\ trace' = Append(trace, Event("geo", i, r.val))
              /\ dest_coords' = r.val
              /\ pc' = IF r.exc # "none" THEN "raised" ELSE "found"
    /\ UNCHANGED <<args, fixed_coords, i, distance, status, results, retval,
                   returned, session_state, probe>>

\* results.insert(0, ...) in place of results.append
AppendRecord_front(list, rec) == <<rec>> \o list

\* results.append, lines 206 and 230
AppendRecord(list, rec) == Append(list, rec)

\* where `continue`, line 214, goes
AfterNotFound == "loop"

\* Lines 205-214: the destination was not found.
DestNotFound ==
    /\ pc = "found"
    /\ ~Truthy(dest_coords)
    /\ results' = AppendRecord(results,
          [Address |-> destination_addresses[i + 1],
           Distance |-> PyNone,
           DistanceType |-> distance_type,
           Status |-> "Address not found",
           Latitude |-> PyNone,
           Longitude |-> PyNone])
    /\ i' = i + 1
    /\ pc' = AfterNotFound
    /\ UNCHANGED <<args, fixed_coords, dest_coords, distance, status, retval,
                   returned, trace, session_state, probe>>

\* the strategy test with the string misspelt: every run takes the else branch
IsStraightLine_typo(dt) == dt = "Straight Line"

\* `if distance_type == "Straight Line (Haversine)"`, line 217
IsStraightLine(dt) == dt = StraightLine

\* Lines 217-222: the straight-line strategy.
DistanceStraightLine ==
    /\ pc = "found"
    /\ Truthy(dest_coords)
    /\ IsStraightLine(distance_type)
    /\ distance' = PyFloat(haversine_distance(fixed_coords.a, fixed_coords.b,
                                              dest_coords.a, dest_coords.b))
    /\ status' = "Success"
    /\ pc' = "append"
    /\ UNCHANGED <<args, fixed_coords, i, dest_coords, results, retval,
                   returned, trace, session_state, probe>>

\* Lines 223-228: the routed strategy.
DistanceRouted ==
    /\ pc = "found"
    /\ Truthy(dest_coords)
    /\ ~IsStraightLine(distance_type)
    /\ \E r \in RouteReturns :
              /\ trace' = Append(trace, Event("route", i, r.val))
              /\ distance' = r.val
              /\ status' = IF Truthy(r.val) THEN "Success"
                           ELSE "Route not found"
              /\ pc' = IF r.exc # "none" THEN "raised" ELSE "append"
    /\ UNCHANGED <<args, fixed_coords, i, dest_coords, results, retval,
                   returned, session_state, probe>>

\* Lines 230-237.
AppendResult ==
    /\ pc = "append"
    /\ results' = AppendRecord(results,
          [Address |-> destination_addresses[i + 1],
           Distance |-> IF Truthy(distance) THEN PyFloat(Round2(distance.a))
                        ELSE PyNone,
           DistanceType |-> distance_type,
           Status |-> status,
           Latitude |-> PyFloat(dest_coords.a),
           Longitude |-> PyFloat(dest_coords.b)])
    /\ i' = i + 1
    /\ pc' = "loop"
    /\ UNCHANGED <<args, fixed_coords, dest_coords, distance, status, retval,
                   returned, trace, session_state, probe>>

\* Lines 239-242: the loop is exhausted.
Finish ==
    /\ pc = "loop"
    /\ ~LoopHasNext(i, Len(destination_addresses))
    /\ retval' = results
    /\ pc' = "return"
    /\ UNCHANGED <<args, locals, returned, trace, session_state, probe>>

\* the session written after every run
ShouldStore_always(res) == TRUE

\* `if results:`, line 413
ShouldStore(res) == res # <<>>

\* Back in the caller; main, lines 409-416, stores a non-empty result.
Return ==
    /\ pc = "return"
    /\ pc' = "idle"
    /\ returned' = [done |-> TRUE, value |-> retval]
    /\ session_state' =
          IF caller = "main" /\ ShouldStore(retval)
          THEN [keys |-> session_state.keys
                           \cup {"results", "fixed_address", "distance_type"},
                results |-> retval,
                fixed_address |-> fixed_address,
                distance_type |-> distance_type]
          ELSE session_state
    /\ UNCHANGED <<args, locals, retval, trace, probe>>

Next ==
    \/ CallDirect
    \/ GeocodeOrigin
    \/ ReportProgress
    \/ Delay
    \/ GeocodeDest
    \/ DestNotFound
    \/ DistanceStraightLine
    \/ DistanceRouted
    \/ AppendResult
    \/ Finish
    \/ Return

Spec == Init /\ [][Next]_vars

\* The application: every run starts from a click on Calculate.
NextMain ==
    \/ Click
    \/ GeocodeOrigin
    \/ ReportProgress
    \/ Delay
    \/ GeocodeDest
    \/ DestNotFound
    \/ DistanceStraightLine
    \/ DistanceRouted
    \/ AppendResult
    \/ Finish
    \/ Return

SpecMain == Init /\ [][NextMain]_vars

\* ------------------------------------------- the adapters on their own
\* One call of one adapter on one response: Init draws the response, the
\* action applies the adapter to it.
ProbeInputs ==
    {[fn |-> "geocode_address", geo |-> g, route |-> NoProbe.route,
      done |-> FALSE, out |-> Value(PyNone)] : g \in GeoResponses}
    \cup {[fn |-> "get_routing_distance", geo |-> NoProbe.geo, route |-> r,
           done |-> FALSE, out |-> Value(PyNone)] : r \in RouteResponses}

InitAdapters ==
    /\ pc = "idle"
    /\ caller = "api"
    /\ fixed_address = ""
    /\ destination_addresses = <<>>
    /\ distance_type = StraightLine
    /\ fixed_coords = PyNone
    /\ i = 0
    /\ dest_coords = PyNone
    /\ distance = PyNone
    /\ status = ""
    /\ results = <<>>
    /\ retval = <<>>
    /\ returned = [done |-> FALSE, value |-> <<>>]
    /\ trace = <<>>
    /\ session_state =
          [keys |-> {}, results |-> <<>>, fixed_address |-> "",
           distance_type |-> ""]
    /\ probe \in ProbeInputs

CallGeocode ==
    /\ probe.fn = "geocode_address"
    /\ ~probe.done
    /\ probe' = [probe EXCEPT !.done = TRUE, !.out = geocode_address(probe.geo)]
    /\ UNCHANGED <<pc, args, locals, retval, returned, trace, session_state>>

CallRouting ==
    /\ probe.fn = "get_routing_distance"
    /\ ~probe.done
    /\ probe' = [probe EXCEPT !.done = TRUE,
                              !.out = get_routing_distance(probe.route)]
    /\ UNCHANGED <<pc, args, locals, retval, returned, trace, session_state>>

NextAdapters ==
    \/ CallGeocode
    \/ CallRouting

SpecAdapters == InitAdapters /\ [][NextAdapters]_vars

\* ---------------------------------------------------------------- claims
\* positions of the trace holding an event of kind e
EventsOf(e) == {k \in 1..Len(trace) : trace[k].e = e}
\* the origin's geocoding returned coordinates
OriginFound == Len(trace) >= 1 /\ trace[1].ret.t = "tuple"
\* positions of the destinations' geocoding requests
DestGeo == {k \in EventsOf("geo") : trace[k].i >= 0}
N == Len(destination_addresses)
Completed == returned.done /\ OriginFound

\* C1: a call whose origin geocodes returns exactly one record per
\* destination and never raises, whatever happens to the destinations; a
\* call whose origin does not geocode returns the empty list having issued
\* the origin's geocoding request and no other.
C1_LengthContract ==
    /\ pc # "raised"
    /\ returned.done =>
          IF OriginFound
          THEN Len(returned.value) = N
          ELSE /\ returned.value = <<>>
               /\ trace = <<Event("geo", -1, PyNone)>>

C1_Witness ==
    /\ Completed
    /\ N = MaxDests
    /\ distance_type = ActualRoute
    /\ returned.value[1].Status = "Address not found"
    /\ returned.value[2].Status = "Route not found"

\* C2: in every returned record the distance is present exactly when the
\* status is Success.
C2_DistanceIffSuccess ==
    returned.done =>
        \A k \in 1..Len(returned.value) :
            (returned.value[k].Distance # PyNone)
                <=> (returned.value[k].Status = "Success")

\* C3: under the routed strategy, a destination whose routing call returned
\* a value has status Success and that distance (to two decimals), one
\* whose routing call returned None has status Route not found and no
\* distance, and both carry the destination's coordinates.
C3_RoutedOutcome ==
    returned.done =>
        \A r \in EventsOf("route") :
            LET rec == returned.value[trace[r].i + 1]
                g == CHOOSE k \in DestGeo : trace[k].i = trace[r].i
            IN  /\ IF trace[r].ret # PyNone
                   THEN /\ rec.Status = "Success"
                        /\ rec.Distance = PyFloat(Round2(trace[r].ret.a))
                   ELSE /\ rec.Status = "Route not found"
                        /\ rec.Distance = PyNone
                /\ rec.Latitude = PyFloat(trace[g].ret.a)
                /\ rec.Longitude = PyFloat(trace[g].ret.b)

\* C4 as stated: a run whose origin geocodes issues 1 + N requests under
\* the straight-line strategy and 1 + 2N under the routed one.
C4_RequestCount ==
    Completed =>
        Cardinality(EventsOf("geo") \cup EventsOf("route"))
            = IF distance_type = StraightLine THEN 1 + N ELSE 1 + 2 * N

\* C4 amended: such a run issues 1 + N geocoding requests, and under the
\* routed strategy one routing request for each destination that geocoded,
\* none for a destination that did not; under the straight-line strategy
\* it issues no routing request.
C4_RequestCountAmended ==
    Completed =>
        /\ Cardinality(EventsOf("geo")) = 1 + N
        /\ \A d \in 0..(N - 1) :
              Cardinality({r \in EventsOf("route") : trace[r].i = d})
                = IF /\ distance_type = ActualRoute
                     /\ \E k \in DestGeo :
                           trace[k].i = d /\ trace[k].ret.t = "tuple"
                  THEN 1 ELSE 0

C4_Witness ==
    /\ Completed
    /\ N = MaxDests
    /\ distance_type = ActualRoute
    /\ returned.value[1].Status = "Address not found"
    /\ returned.value[2].Status = "Success"
    /\ Cardinality(EventsOf("route")) = N - 1

\* record k of the results, and of the returned list, is destination k's
C5_InOrder ==
    /\ \A k \in 1..Len(results) :
          results[k].Address = destination_addresses[k]
    /\ returned.done /\ OriginFound =>
          /\ Len(returned.value) = N
          /\ \A k \in 1..N : returned.value[k].Address = destination_addresses[k]
C5_AppendOnly ==
    \/ results' = results
    \/ pc = "idle" /\ results' = <<>>
    \/ /\ Len(results') = Len(results) + 1
       /\ SubSeq(results', 1, Len(results)) = results
\* C5: record k of the results, and of the returned list, is the record of
\* destination k, whichever destinations failed; and the list only grows at
\* its end, one record at a time, within a run.
C5_OrderPreserved == []C5_InOrder /\ [][C5_AppendOnly]_vars

C5_Witness ==
    /\ Completed
    /\ N >= 2
    /\ destination_addresses[1] # destination_addresses[2]
    /\ returned.value[1].Status = "Address not found"
    /\ returned.value[2].Status = "Success"
    /\ returned.value[2].Address = destination_addresses[2]

\* C6: a returned record has a latitude and a longitude exactly when the
\* geocoding of its destination returned coordinates, and then they are
\* those coordinates, (0.0, 0.0) included, whatever the distance step did.
C6_CoordsIffGeocoded ==
    returned.done =>
        \A g \in DestGeo :
            LET rec == returned.value[trace[g].i + 1]
            IN  IF trace[g].ret.t = "tuple"
                THEN /\ rec.Latitude = PyFloat(trace[g].ret.a)
                     /\ rec.Longitude = PyFloat(trace[g].ret.b)
                ELSE /\ rec.Latitude = PyNone
                     /\ rec.Longitude = PyNone

C6_Witness ==
    /\ Completed
    /\ \E g \in DestGeo :
          /\ trace[g].ret = PyTuple(0, 0)
          /\ returned.value[trace[g].i + 1].Latitude = PyFloat(0)
          /\ returned.value[trace[g].i + 1].Longitude = PyFloat(0)
          /\ returned.value[trace[g].i + 1].Status = "Route not found"

\* a response that is well formed and not empty
GeoWellFormed(resp) ==
    /\ resp.kind = "json"
    /\ resp.shape = "list_of_obj"
    /\ resp.lat.t \in {"numstr", "num"}
    /\ resp.lon.t \in {"numstr", "num"}
RouteWellFormed(resp) ==
    /\ resp.kind = "json"
    /\ resp.shape = "dict"
    /\ resp.code = "Ok"
    /\ resp.routes = "list"
    /\ resp.dist.t = "num"

\* C7: neither adapter raises; each returns None for every failure kind and
\* a value only for a well-formed, non-empty response.
C7_AdaptersTotal ==
    probe.done =>
        /\ probe.out.exc = "none"
        /\ probe.fn = "geocode_address" =>
              ((probe.out.val # PyNone) <=> GeoWellFormed(probe.geo))
        /\ probe.fn = "get_routing_distance" =>
              ((probe.out.val # PyNone) <=> RouteWellFormed(probe.route))

\* C8: in the trace of a run a sleep lies between the geocoding requests of
\* destinations i-1 and i, none precedes the first destination's request,
\* and a run that went through N >= 1 destinations slept N - 1 times.
C8_DelayBetween ==
    /\ \A p, q \in DestGeo :
          trace[q].i = trace[p].i + 1 =>
              \E s \in EventsOf("sleep") : p < s /\ s < q
    /\ \A s \in EventsOf("sleep") :
          \E p \in DestGeo : trace[p].i = 0 /\ p < s
    /\ Completed /\ N >= 1 => Cardinality(EventsOf("sleep")) = N - 1

C8_Witness ==
    /\ Completed
    /\ N = MaxDests
    /\ returned.value[1].Status = "Address not found"
    /\ Cardinality(EventsOf("sleep")) = N - 1

\* the largest numerator reported to the progress bar so far
Reported ==
    IF EventsOf("progress") = {} THEN 0
    ELSE CHOOSE n \in {trace[k].i : k \in EventsOf("progress")} :
            \A k \in EventsOf("progress") : trace[k].i <= n

C10_Step ==
    IF pc = "return" /\ retval # <<>>
    THEN session_state' =
            [keys |-> {"results", "fixed_address", "distance_type"},
             results |-> retval,
             fixed_address |-> fixed_address,
             distance_type |-> distance_type]
    ELSE session_state' = session_state
\* C10: a step changes the session only when a run returns at least one
\* record to main, and then sets results, fixed_address and distance_type
\* together to that run's; a run that returns the empty list leaves all
\* three as the last run that returned records left them.
C10_SessionFrame == [][C10_Step]_vars

C10_Witness ==
    /\ returned.done
    /\ returned.value = <<>>
    /\ "results" \in session_state.keys
    /\ session_state.results # <<>>
    /\ session_state.fixed_address # fixed_address
    /\ session_state.distance_type # distance_type
====
